---- MODULE Spec2Model ----
(***************************************************************************)
(* Model of src/src/training/data.py (cloome): the dataset builders, the   *)
(* dispatch helper get_dataset_fn, the debug helper get_data_subset and    *)
(* get_data.  The module is a stateless library, so the state machine is   *)
(* a driver that calls one function per step: op names the function last   *)
(* called, inp holds its arguments together with what it read from the     *)
(* environment (file contents, shuffle outcomes, the process rank), and    *)
(* out holds what it returned or raised.                                   *)
(*                                                                         *)
(* The functions keep no state between calls, so every behaviour is one   *)
(* call made from the initial state.                                      *)
(*                                                                         *)
(* External libraries are modelled by what the builders observe of them:   *)
(* a dataset is its length (and, for a Subset, its index list), a loader   *)
(* is the sequence of batch lengths one pass over it yields.  Calls into   *)
(* the file system are taken to succeed, but for ImageFolder on a folder   *)
(* without samples.                                                        *)
(***************************************************************************)
EXTENDS Integers, Sequences, FiniteSets, TLC

VARIABLES op, inp, out

vars == <<op, inp, out>>

(***************************************************************************)
(* Bounds of the model.                                                    *)
(***************************************************************************)
MaxPathLen == 4
MaxLen == 3
MaxRot == 1
MaxN == 3
MaxBatch == 2
MaxWorld == 2
MaxShards == 2
MaxShardSize == 2
MaxExtra == 1
MaxSmall == 1

(***************************************************************************)
(* Generic helpers.                                                        *)
(***************************************************************************)
Min(a, b) == IF a <= b THEN a ELSE b

CeilDiv(a, b) == (a + b - 1) \div b

Range(s) == {s[i] : i \in 1..Len(s)}

\* s[lo] + ... + s[hi], by halves.
RECURSIVE SumRange(_, _, _)
SumRange(s, lo, hi) ==
    IF lo > hi THEN 0
    ELSE IF lo = hi THEN s[lo]
    ELSE LET mid == (lo + hi) \div 2
         IN  SumRange(s, lo, mid) + SumRange(s, mid + 1, hi)

SumSeq(s) == SumRange(s, 1, Len(s))

SeqsUpTo(S, n) == UNION {[1..k -> S] : k \in 0..n}

\* Python's None, as the value of an optional command-line argument.
None == "<None>"

Truthy_notnone(x) == x # None

\* Python truthiness of an optional string argument: None and '' are falsy.
Truthy(x) == x # None /\ x # ""

(***************************************************************************)
(* get_dataset_fn: characters are one-letter strings, a path is a sequence *)
(* of characters.                                                          *)
(***************************************************************************)
Alphabet == {"c", "s", "v", "t", "a", "r", "."}

Paths == SeqsUpTo(Alphabet, MaxPathLen)

DatasetTypes == {"webdataset", "csv", "auto", "cellpainting"}

Str_csv == <<"c", "s", "v">>
Str_tsv == <<"t", "s", "v">>
Str_tar == <<"t", "a", "r">>

\* str.split(sep): the pieces between the occurrences of sep, in order.
RECURSIVE Split(_, _)
Split(s, sep) ==
    IF sep \notin Range(s)
    THEN <<s>>
    ELSE LET i == CHOOSE j \in 1..Len(s) :
                      s[j] = sep /\ \A k \in 1..(j - 1) : s[k] # sep
         IN  <<SubSeq(s, 1, i - 1)>> \o Split(SubSeq(s, i + 1, Len(s)), sep)

\* seq[-1]
Last(s) == s[Len(s)]

get_dataset_fn_first(data_path, dataset_type) ==
    IF dataset_type = "webdataset" THEN [kind |-> "return", fn |-> "get_wds_dataset", exc |-> "none"]
    ELSE IF dataset_type = "csv" THEN [kind |-> "return", fn |-> "get_csv_dataset", exc |-> "none"]
    ELSE IF dataset_type = "auto" THEN
        LET ext == Split(data_path, ".")[1]
        IN  IF ext \in {Str_csv, Str_tsv} THEN [kind |-> "return", fn |-> "get_csv_dataset", exc |-> "none"]
            ELSE IF ext \in {Str_tar} THEN [kind |-> "return", fn |-> "get_wds_dataset", exc |-> "none"]
            ELSE [kind |-> "raise", fn |-> "none", exc |-> "ValueError"]
    ELSE [kind |-> "raise", fn |-> "none", exc |-> "ValueError"]

get_dataset_fn_fallthrough(data_path, dataset_type) ==
    IF dataset_type = "webdataset" THEN [kind |-> "return", fn |-> "get_wds_dataset", exc |-> "none"]
    ELSE IF dataset_type = "csv" THEN [kind |-> "return", fn |-> "get_csv_dataset", exc |-> "none"]
    ELSE LET ext == Last(Split(data_path, "."))
         IN  IF ext \in {Str_csv, Str_tsv} THEN [kind |-> "return", fn |-> "get_csv_dataset", exc |-> "none"]
             ELSE IF ext \in {Str_tar} THEN [kind |-> "return", fn |-> "get_wds_dataset", exc |-> "none"]
             ELSE [kind |-> "raise", fn |-> "none", exc |-> "ValueError"]

get_dataset_fn_cell(data_path, dataset_type) ==
    IF dataset_type = "webdataset" THEN [kind |-> "return", fn |-> "get_wds_dataset", exc |-> "none"]
    ELSE IF dataset_type = "csv" THEN [kind |-> "return", fn |-> "get_csv_dataset", exc |-> "none"]
    ELSE IF dataset_type = "auto" THEN
        LET ext == Last(Split(data_path, "."))
        IN  IF ext \in {Str_csv, Str_tsv} THEN [kind |-> "return", fn |-> "get_csv_dataset", exc |-> "none"]
            ELSE IF ext \in {Str_tar} THEN [kind |-> "return", fn |-> "get_wds_dataset", exc |-> "none"]
            ELSE [kind |-> "return", fn |-> "get_cellpainting_dataset", exc |-> "none"]
    ELSE [kind |-> "raise", fn |-> "none", exc |-> "ValueError"]

get_dataset_fn(data_path, dataset_type) ==
    IF dataset_type = "webdataset" THEN [kind |-> "return", fn |-> "get_wds_dataset", exc |-> "none"]
    ELSE IF dataset_type = "csv" THEN [kind |-> "return", fn |-> "get_csv_dataset", exc |-> "none"]
    ELSE IF dataset_type = "auto" THEN
        LET ext == Last(Split(data_path, "."))
        IN  IF ext \in {Str_csv, Str_tsv} THEN [kind |-> "return", fn |-> "get_csv_dataset", exc |-> "none"]
            ELSE IF ext \in {Str_tar} THEN [kind |-> "return", fn |-> "get_wds_dataset", exc |-> "none"]
            ELSE [kind |-> "raise", fn |-> "none", exc |-> "ValueError"]
    ELSE [kind |-> "raise", fn |-> "none", exc |-> "ValueError"]

GetDatasetFn ==
    /\ op = "none"
    /\ \E data_path \in Paths, dataset_type \in DatasetTypes :
        /\ op' = "get_dataset_fn"
        /\ inp' = [data_path |-> data_path, dataset_type |-> dataset_type]
        /\ out' = get_dataset_fn(data_path, dataset_type)

(***************************************************************************)
(* Datasets, samplers and loaders, as the builders observe them.           *)
(***************************************************************************)
\* A map-style dataset read from disk: kind is its class, len its length.
Dataset(kind, n) == [kind |-> kind, len |-> n, indices |-> <<>>]

\* torch.utils.data.Subset(dataset, indices)
Subset(dataset, indices) == [kind |-> "Subset", len |-> dataset.len, indices |-> indices]

\* len(dataset): a Subset's length is that of its index list.
Length(dataset) == IF dataset.kind = "Subset" THEN Len(dataset.indices) ELSE dataset.len

\* np.arange(n)
Arange(n) == [i \in 1..n |-> i - 1]

\* seq[:n] for n >= 0
Prefix(s, n) == SubSeq(s, 1, Min(n, Len(s)))

Rotation(s, r) == [i \in 1..Len(s) |-> s[((i - 1 + r) % Len(s)) + 1]]

\* The orders np.random.shuffle can leave s in: every permutation of a short
\* array; of a longer one, its rotations by 0..MaxRot only.
ShuffleOutcomes(s) ==
    IF Len(s) <= MaxLen
    THEN {[i \in 1..Len(s) |-> s[p[i]]] :
            p \in {q \in [1..Len(s) -> 1..Len(s)] :
                     \A i, j \in 1..Len(s) : i # j => q[i] # q[j]}}
    ELSE {Rotation(s, r) : r \in 0..MaxRot}

DefaultNSamples == 1000

get_data_subset_offbyone(dataset, n_samples, shuffled) ==
    Subset(dataset, Prefix(shuffled, Min(n_samples, Length(dataset)) + 1))

\* shuffled: idcs after np.random.shuffle(idcs).
get_data_subset(dataset, n_samples, shuffled) ==
    LET idcs == shuffled
        n == Min(n_samples, Length(dataset))
        new_idcs == Prefix(idcs, n)
    IN  Subset(dataset, new_idcs)

GetDataSubset ==
    /\ op = "none"
    /\ \E n \in 0..MaxLen, n_samples \in 0..MaxN :
        \E shuffled \in ShuffleOutcomes(Arange(n)) :
            /\ op' = "get_data_subset"
            /\ inp' = [len |-> n, n_samples |-> n_samples, shuffled |-> shuffled]
            /\ out' = [kind |-> "return",
                        subset |-> get_data_subset(Dataset("Dataset", n), n_samples,
                                                   shuffled)]

NoSampler == [kind |-> "None", len |-> 0, indices |-> {}]

\* DistributedSampler(dataset): each replica draws ceil(len / num_replicas).
DistributedSampler(dataset, num_replicas) ==
    [kind |-> "DistributedSampler", len |-> CeilDiv(Length(dataset), num_replicas),
     indices |-> {}]

SubsetRandomSampler(indices) ==
    [kind |-> "SubsetRandomSampler", len |-> Cardinality(indices), indices |-> indices]

NoLoader == [kind |-> "None"]

\* The arguments of a DataLoader(...) call.
LoaderCall(dataset, batch_size, shuffle, sampler, drop_last) ==
    [dataset |-> dataset, batch_size |-> batch_size, shuffle |-> shuffle,
     sampler |-> sampler, drop_last |-> drop_last]

\* DataLoader.__init__ rejects shuffle together with a sampler.
LoaderRejects(c) == c.shuffle /\ c.sampler.kind # "None"

DataLoader(c) == [kind |-> "DataLoader"] @@ c

\* The number of samples one pass of a DataLoader draws.
Drawn(dl) == IF dl.sampler.kind = "None" THEN Length(dl.dataset) ELSE dl.sampler.len

\* len(dataloader)
LoaderLen(dl) ==
    IF dl.drop_last THEN Drawn(dl) \div dl.batch_size
    ELSE CeilDiv(Drawn(dl), dl.batch_size)

\* The batch lengths of n samples in batches of bs, the short last one kept
\* when partial.
Batched(n, bs, partial) ==
    [i \in 1..(n \div bs) |-> bs]
        \o (IF partial /\ n % bs # 0 THEN <<n % bs>> ELSE <<>>)

\* The batch lengths one pass over a loader yields.
Iterate(dl) ==
    IF dl.kind = "WebLoader" THEN dl.batches
    ELSE Batched(Drawn(dl), dl.batch_size, ~dl.drop_last)

WithCounts_nobatches(dl, num_samples) == dl @@ [num_samples |-> num_samples]

\* dataloader.num_samples = num_samples; dataloader.num_batches = len(dataloader)
WithCounts(dl, num_samples) ==
    dl @@ [num_samples |-> num_samples, num_batches |-> LoaderLen(dl)]

DataInfo(dataloader, sampler) == [dataloader |-> dataloader, sampler |-> sampler]

\* What a builder did: returned a DataInfo, or raised exc; constructed names
\* the dataset, sampler and loader objects it created, dl_calls the
\* DataLoader(...) calls it made, sampler the sampler it built (if any).
Returned(info, made, dl_calls) ==
    [kind |-> "return", exc |-> "none", constructed |-> made, dl_calls |-> dl_calls,
     sampler |-> info.sampler, dataloader |-> info.dataloader]

Raised(exc, made, dl_calls, sampler) ==
    [kind |-> "raise", exc |-> exc, constructed |-> made, dl_calls |-> dl_calls,
     sampler |-> sampler, dataloader |-> NoLoader]

PathVals == {None, "", "p"}

DefaultArgs ==
    [train_index |-> "p", val_index |-> "p", data_mols |-> "p", image_path |-> "p",
     train_data |-> "p", val_data |-> "p",
     imagenet_train |-> "p", imagenet_val |-> "p", imagenet_v2 |-> "p",
     debug_run |-> FALSE, distributed |-> FALSE,
     batch_size |-> 1, batch_size_eval |-> 1, world_size |-> 1]

\* The lengths a dataset read from disk is given: short ones, and ones
\* around the default subset size.
Lens == (0..MaxLen) \cup {DefaultNSamples - 1, DefaultNSamples, DefaultNSamples + 1}

(***************************************************************************)
(* get_cellpainting_dataset.  n: the length of the CellPainting dataset;   *)
(* shuffled: the outcome of the shuffle in get_data_subset.                *)
(***************************************************************************)
get_cellpainting_dataset(args, is_train, n, shuffled) ==
    IF ~Truthy(args.data_mols) \/ ~Truthy(args.image_path)
    THEN Raised("AssertionError", {}, <<>>, NoSampler)
    ELSE
    LET dataset0 == Dataset("CellPainting", n)
        dataset == IF args.debug_run
                   THEN get_data_subset(dataset0, DefaultNSamples, shuffled)
                   ELSE dataset0
        made0 == {"CellPainting"} \cup (IF args.debug_run THEN {"Subset"} ELSE {})
        num_samples == Length(dataset)
        sampler == IF args.distributed /\ is_train
                   THEN DistributedSampler(dataset, args.world_size)
                   ELSE NoSampler
        made1 == made0 \cup (IF sampler.kind = "None" THEN {} ELSE {sampler.kind})
        shuffle == is_train /\ sampler.kind = "None"
        batch_size == IF is_train THEN args.batch_size ELSE args.batch_size_eval
        c == LoaderCall(dataset, batch_size, shuffle, sampler, is_train)
    IN  IF LoaderRejects(c) THEN Raised("ValueError", made1, <<c>>, sampler)
        ELSE LET dataloader == WithCounts(DataLoader(c), num_samples)
             IN  Returned(DataInfo(dataloader, sampler),
                          made1 \cup {"DataLoader"}, <<c>>)

\* What the builder reads of the environment, given its arguments.
MapEnv(reads, debug_run) ==
    IF ~reads THEN {[len |-> 0, shuffled |-> <<>>]}
    ELSE UNION {{[len |-> n, shuffled |-> sh] :
                    sh \in IF debug_run THEN ShuffleOutcomes(Arange(n)) ELSE {<<>>}} :
                n \in Lens}

\* A run that is not distributed has a single process.
BuilderArgs ==
    {a \in {[DefaultArgs EXCEPT !.debug_run = dbg, !.distributed = dist,
                                !.batch_size = bs, !.batch_size_eval = bse,
                                !.world_size = ws] :
                dbg \in BOOLEAN, dist \in BOOLEAN, bs \in 1..MaxBatch,
                bse \in 1..MaxBatch, ws \in 1..MaxWorld} :
        a.distributed \/ a.world_size = 1}

GetCellpaintingDataset ==
    /\ op = "none"
    /\ \E a \in BuilderArgs, is_train \in BOOLEAN, mols \in PathVals, imgs \in PathVals :
        LET args == [a EXCEPT !.data_mols = mols, !.image_path = imgs]
        IN  \E env \in MapEnv(Truthy(mols) /\ Truthy(imgs), args.debug_run) :
                /\ op' = "get_cellpainting_dataset"
                /\ inp' = [args |-> args, is_train |-> is_train, env |-> env]
                /\ out' = get_cellpainting_dataset(args, is_train, env.len, env.shuffled)

(***************************************************************************)
(* get_csv_dataset.  n: the number of rows of the csv file.                *)
(***************************************************************************)
get_csv_dataset(args, is_train, n, shuffled) ==
    LET input_filename == IF is_train THEN args.train_data ELSE args.val_data
    IN
    IF ~Truthy(input_filename)
    THEN Raised("AssertionError", {}, <<>>, NoSampler)
    ELSE
    LET dataset0 == Dataset("CsvDataset", n)
        dataset == IF args.debug_run
                   THEN get_data_subset(dataset0, DefaultNSamples, shuffled)
                   ELSE dataset0
        made0 == {"CsvDataset"} \cup (IF args.debug_run THEN {"Subset"} ELSE {})
        num_samples == Length(dataset)
        sampler == IF args.distributed /\ is_train
                   THEN DistributedSampler(dataset, args.world_size)
                   ELSE NoSampler
        made1 == made0 \cup (IF sampler.kind = "None" THEN {} ELSE {sampler.kind})
        shuffle == sampler.kind = "None"
        batch_size == IF is_train THEN args.batch_size ELSE args.batch_size_eval
        c == LoaderCall(dataset, batch_size, shuffle, sampler, is_train)
    IN  IF LoaderRejects(c) THEN Raised("ValueError", made1, <<c>>, sampler)
        ELSE LET dataloader == WithCounts(DataLoader(c), num_samples)
             IN  Returned(DataInfo(dataloader, sampler),
                          made1 \cup {"DataLoader"}, <<c>>)

GetCsvDataset ==
    /\ op = "none"
    /\ \E a \in BuilderArgs, is_train \in BOOLEAN, path \in PathVals :
        LET args == IF is_train THEN [a EXCEPT !.train_data = path]
                    ELSE [a EXCEPT !.val_data = path]
        IN  \E env \in MapEnv(Truthy(path), args.debug_run) :
                /\ op' = "get_csv_dataset"
                /\ inp' = [args |-> args, is_train |-> is_train, env |-> env]
                /\ out' = get_csv_dataset(args, is_train, env.len, env.shuffled)

(***************************************************************************)
(* get_wds_dataset.  sizes: the sizes.json entries of the shards of the    *)
(* expanded pattern, in the order the epoch shuffle leaves them; rank: the *)
(* rank of the calling process.  One loading process per rank.             *)
(***************************************************************************)
get_dataset_size(sizes) == [total_size |-> SumSeq(sizes), num_shards |-> Len(sizes)]

\* PytorchShardList(split_by_node): a node reads the shards urls[rank::world].
OwnShards(sizes, rank, world) ==
    LET own == {i \in 1..Len(sizes) : (i - 1) % world = rank}
    IN  SelectSeq([i \in 1..Len(sizes) |-> IF i \in own THEN sizes[i] ELSE 0 - 1],
                  LAMBDA x : x >= 0)

\* loader.repeat(2).slice(n): two passes, cut after n batches.
RepeatSlice(batches, n) == Prefix(batches \o batches, n)

\* num_samples, num_batches and batch_size as lines 165-175 leave them.
WdsCounts(args, is_train, total_size, num_shards) ==
    IF is_train /\ args.distributed
    THEN LET max_shards_per_node == CeilDiv(num_shards, args.world_size)
             ns == args.world_size * ((total_size * max_shards_per_node) \div num_shards)
             nb == ns \div (args.batch_size * args.world_size)
         IN  [num_batches |-> nb,
              num_samples |-> nb * args.batch_size * args.world_size,
              batch_size |-> args.batch_size]
    ELSE IF is_train
    THEN [num_batches |-> total_size \div args.batch_size,
          num_samples |-> total_size, batch_size |-> args.batch_size]
    ELSE [num_batches |-> total_size \div args.batch_size_eval,
          num_samples |-> total_size, batch_size |-> args.batch_size_eval]

get_wds_dataset(args, is_train, sizes, rank) ==
    LET input_shards == IF is_train THEN args.train_data ELSE args.val_data
    IN
    IF input_shards = None
    THEN Raised("AssertionError", {}, <<>>, NoSampler)
    ELSE
    LET size == get_dataset_size(sizes)
        n == WdsCounts(args, is_train, size.total_size, size.num_shards)
        world == IF args.distributed THEN args.world_size ELSE 1
        own == IF is_train THEN OwnShards(sizes, rank, world) ELSE sizes
        partial == ~is_train \/ ~args.distributed
        dataset == Batched(SumSeq(own), n.batch_size, partial)
        made == {"PytorchShardList", "WebDataset"}
    IN  \* get_data_subset takes len(dataset), which the pipeline does not have.
        IF args.debug_run THEN Raised("TypeError", made, <<>>, NoSampler)
        ELSE LET batches == IF is_train /\ args.distributed
                            THEN RepeatSlice(dataset, n.num_batches)
                            ELSE dataset
                 dataloader == [kind |-> "WebLoader", batches |-> batches,
                                num_batches |-> n.num_batches,
                                num_samples |-> n.num_samples]
             IN  Returned(DataInfo(dataloader, NoSampler), made \cup {"WebLoader"}, <<>>)

ShardSizes == UNION {[1..k -> 0..MaxShardSize] : k \in 1..MaxShards}

WdsEnv(reads, world) ==
    IF ~reads THEN {[sizes |-> <<>>, rank |-> 0]}
    ELSE {[sizes |-> sz, rank |-> r] : sz \in ShardSizes, r \in 0..(world - 1)}

GetWdsDataset ==
    /\ op = "none"
    /\ \E a \in BuilderArgs, is_train \in BOOLEAN, path \in PathVals :
        LET args == IF is_train THEN [a EXCEPT !.train_data = path]
                    ELSE [a EXCEPT !.val_data = path]
        IN  \E env \in WdsEnv(path # None, args.world_size) :
                /\ op' = "get_wds_dataset"
                /\ inp' = [args |-> args, is_train |-> is_train, env |-> env]
                /\ out' = get_wds_dataset(args, is_train, env.sizes, env.rank)

(***************************************************************************)
(* get_imagenet.  targets: the class of each sample of the dataset found   *)
(* on disk; arrs: for each class, the positions of arr that hold 1 after   *)
(* np.random.shuffle(arr).                                                 *)
(***************************************************************************)
NumClasses == 1000
K == 50

RECURSIVE KSubsets(_, _)
KSubsets(S, k) ==
    IF k = 0 THEN {{}}
    ELSE IF Cardinality(S) < k THEN {}
    ELSE UNION {{T \cup {x} : T \in KSubsets({y \in S : y > x}, k - 1)} : x \in S}

\* The arrays of length n with `ones` ones, each as the set of the positions
\* (from 1) that hold 1.
Arrangements(n, ones) == {(1..n) \ Z : Z \in KSubsets(1..n, n - ones)}

ShuffledArr_nocap(n) == Arrangements(n, n)

\* arr = np.zeros(n); arr[:k] = 1; np.random.shuffle(arr)
ShuffledArr(n) == Arrangements(n, Min(K, n))

\* The indices (from 0) of the samples of class c, ascending: the mask m.
Mask(targets, c) ==
    SelectSeq([i \in 1..Len(targets) |-> IF targets[i] = c THEN i - 1 ELSE 0 - 1],
              LAMBDA x : x >= 0)

\* range(1000) restricted to the classes that have samples: for the others
\* the loop body assigns an empty array to an empty selection.
LoopClasses(targets) == {c \in Range(targets) : c \in 0..(NumClasses - 1)}

RECURSIVE ArrChoices(_, _)
ArrChoices(targets, classes) ==
    IF classes = {} THEN {<<>>}
    ELSE LET c == CHOOSE x \in classes : TRUE
         IN  {(c :> A) @@ f : A \in ShuffledArr(Len(Mask(targets, c))),
                              f \in ArrChoices(targets, classes \ {c})}

\* np.where(idxs)[0] after the loop: idxs[m] = arr puts arr[j] at the j-th
\* sample of the class.
SampledIndices(targets, arrs) ==
    UNION {LET m == Mask(targets, c) IN {m[j] : j \in arrs[c]} : c \in DOMAIN arrs}

get_imagenet(args, split, targets, shuffled, arrs) ==
    IF split \notin {"train", "val", "v2"}
    THEN Raised("AssertionError", {}, <<>>, NoSampler)
    ELSE
    LET is_train == split = "train"
        data_path == IF is_train THEN args.imagenet_train ELSE args.imagenet_val
    IN
    IF split # "v2" /\ ~Truthy(data_path)
    THEN Raised("AssertionError", {}, <<>>, NoSampler)
    ELSE
    \* ImageFolder refuses a folder without samples (FileNotFoundError, or
    \* RuntimeError in older versions of the library).
    IF split # "v2" /\ targets = <<>>
    THEN Raised("FileNotFoundError", {}, <<>>, NoSampler)
    ELSE
    LET dataset0 == IF split = "v2"
                    THEN Dataset("ImageNetV2Dataset", Len(targets))
                    ELSE Dataset("ImageFolder", Len(targets)) @@ [targets |-> targets]
        dataset == IF args.debug_run
                   THEN get_data_subset(dataset0, DefaultNSamples, shuffled)
                   ELSE dataset0
        made0 == {dataset0.kind} \cup (IF args.debug_run THEN {"Subset"} ELSE {})
    IN  \* a Subset has no attribute targets
        IF is_train /\ "targets" \notin DOMAIN dataset
        THEN Raised("AttributeError", made0, <<>>, NoSampler)
        ELSE
        LET sampler == IF is_train
                       THEN SubsetRandomSampler(SampledIndices(dataset.targets, arrs))
                       ELSE NoSampler
            made1 == made0 \cup (IF is_train THEN {sampler.kind} ELSE {})
            c == LoaderCall(dataset, args.batch_size_eval, TRUE, sampler, FALSE)
        IN  IF LoaderRejects(c) THEN Raised("ValueError", made1, <<c>>, sampler)
            ELSE Returned(DataInfo(DataLoader(c), sampler),
                          made1 \cup {"DataLoader"}, <<c>>)

Block(c, n) == [i \in 1..n |-> c]

\* The datasets found on disk: the samples of one class of any size around
\* K, of a second class and of a class beyond the thousand, in class order.
TargetLists ==
    {Block(0, a) \o Block(NumClasses - 1, b) \o Block(NumClasses, o) :
        a \in {0, 1, K - 1, K} \cup {K + e : e \in 1..MaxExtra},
        b \in 0..MaxSmall, o \in 0..1}

ImagenetEnv(reads, is_train, debug_run) ==
    IF ~reads THEN {[targets |-> <<>>, shuffled |-> <<>>, arrs |-> <<>>]}
    ELSE UNION {{[targets |-> t, shuffled |-> sh, arrs |-> ar] :
                    sh \in IF debug_run THEN ShuffleOutcomes(Arange(Len(t))) ELSE {<<>>},
                    ar \in IF is_train /\ ~debug_run
                           THEN ArrChoices(t, LoopClasses(t)) ELSE {<<>>}} :
                t \in TargetLists}

Splits == {"train", "val", "v2", "test"}

GetImagenet ==
    /\ op = "none"
    /\ \E split \in Splits, path \in PathVals, dbg \in BOOLEAN, bse \in 1..MaxBatch :
        LET a == [DefaultArgs EXCEPT !.debug_run = dbg, !.batch_size_eval = bse]
            args == IF split = "train" THEN [a EXCEPT !.imagenet_train = path]
                    ELSE IF split = "val" THEN [a EXCEPT !.imagenet_val = path]
                    ELSE [a EXCEPT !.imagenet_v2 = path]
            reads == split = "v2" \/ (split \in {"train", "val"} /\ Truthy(path))
        IN  \E env \in ImagenetEnv(reads, split = "train", dbg) :
                /\ op' = "get_imagenet"
                /\ inp' = [args |-> args, split |-> split, env |-> env]
                /\ out' = get_imagenet(args, split, env.targets, env.shuffled, env.arrs)

(***************************************************************************)
(* get_data.  Every dataset found on disk has n samples, all of class 0;   *)
(* shuffled is the outcome of each shuffle of get_data_subset.             *)
(***************************************************************************)
\* data[key] = builder(...) when cond holds and nothing was raised before.
Assign(acc, cond, key, res) ==
    IF acc.exc # "none" \/ ~cond THEN acc
    ELSE LET made == acc.constructed \cup res.constructed
             calls == acc.dl_calls \o res.dl_calls
         IN  IF res.kind = "raise"
             THEN [acc EXCEPT !.kind = "raise", !.exc = res.exc,
                              !.constructed = made, !.dl_calls = calls]
             ELSE [acc EXCEPT !.constructed = made, !.dl_calls = calls,
                              !.data = (key :> DataInfo(res.dataloader, res.sampler)) @@ @]

get_data(args, n, shuffled) ==
    LET data0 == [kind |-> "return", exc |-> "none", constructed |-> {},
                  dl_calls |-> <<>>, data |-> <<>>]
        data1 == Assign(data0, Truthy(args.train_index), "train",
                        get_cellpainting_dataset(args, TRUE, n, shuffled))
        data2 == Assign(data1, Truthy(args.val_index), "val",
                        get_cellpainting_dataset(args, FALSE, n, shuffled))
        data3 == Assign(data2, args.imagenet_val # None, "imagenet-val",
                        get_imagenet(args, "val", Block(0, n), shuffled, <<>>))
        data4 == Assign(data3, args.imagenet_v2 # None, "imagenet-v2",
                        get_imagenet(args, "v2", Block(0, n), shuffled, <<>>))
    IN  data4

GetData ==
    /\ op = "none"
    /\ \E ti \in PathVals, vi \in PathVals, iv \in PathVals, i2 \in PathVals,
          mols \in PathVals, imgs \in PathVals, dbg \in BOOLEAN, dist \in BOOLEAN :
        LET args == [DefaultArgs EXCEPT !.train_index = ti, !.val_index = vi,
                                        !.imagenet_val = iv, !.imagenet_v2 = i2,
                                        !.data_mols = mols, !.image_path = imgs,
                                        !.debug_run = dbg, !.distributed = dist]
        IN  \E n \in 0..MaxSmall :
            \E sh \in IF dbg THEN ShuffleOutcomes(Arange(n)) ELSE {<<>>} :
                /\ op' = "get_data"
                /\ inp' = [args |-> args, env |-> [len |-> n, shuffled |-> sh]]
                /\ out' = get_data(args, n, sh)

(***************************************************************************)
(* count_samples: one pass over a loader a builder returned.               *)
(***************************************************************************)
count_samples(dataloader) ==
    LET batches == Iterate(dataloader)
    IN  [kind |-> "return", n_elements |-> SumSeq(batches), n_batches |-> Len(batches)]

Builders == {"get_cellpainting_dataset", "get_csv_dataset", "get_wds_dataset",
             "get_imagenet"}

CountSamples ==
    /\ op \in Builders
    /\ out.kind = "return"
    /\ op' = "count_samples"
    /\ inp' = [builder |-> op, call |-> inp, dataloader |-> out.dataloader]
    /\ out' = count_samples(out.dataloader)

Init ==
    /\ op = "none"
    /\ inp = [data_path |-> <<>>, dataset_type |-> ""]
    /\ out = [kind |-> "none"]

Next ==
    \/ GetDatasetFn
    \/ GetDataSubset
    \/ GetCellpaintingDataset
    \/ GetCsvDataset
    \/ GetWdsDataset
    \/ GetImagenet
    \/ GetData
    \/ CountSamples

Spec == Init /\ [][Next]_vars

(***************************************************************************)
(* Properties.                                                             *)
(***************************************************************************)
\* e is the text of p after its last '.', or all of p when it has none.
IsExtOf(e, p) ==
    \E k \in 0..Len(p) :
        /\ e = SubSeq(p, k + 1, Len(p))
        /\ "." \notin Range(e)
        /\ k = 0 \/ p[k] = "."

\* No two entries of s are equal.
Distinct(s) == Cardinality(Range(s)) = Len(s)

HasCounts(dl) == {"num_samples", "num_batches"} \subseteq DOMAIN dl

\* C1: with dataset_type "auto", get_dataset_fn dispatches on the text after
\* the last '.' of data_path: csv and tsv give get_csv_dataset, tar gives
\* get_wds_dataset, and any other extension gives no constructor.
C1_AutoDispatch ==
    (op = "get_dataset_fn" /\ inp.dataset_type = "auto") =>
        \E k \in 0..Len(inp.data_path) :
            LET e == SubSeq(inp.data_path, k + 1, Len(inp.data_path))
            IN  /\ IsExtOf(e, inp.data_path)
                /\ e \in {Str_csv, Str_tsv} =>
                       (out.kind = "return" /\ out.fn = "get_csv_dataset")
                /\ e = Str_tar =>
                       (out.kind = "return" /\ out.fn = "get_wds_dataset")
                /\ e \notin {Str_csv, Str_tsv, Str_tar} =>
                       (out.kind # "return" /\ out.fn = "none")

C1_Witness ==
    /\ op = "get_dataset_fn"
    /\ inp.dataset_type = "auto"
    /\ inp.data_path = <<".", "t", "a", "r">>
    /\ out.fn = "get_wds_dataset"

\* C2: get_dataset_fn raises ValueError, returning nothing, exactly when
\* dataset_type is "auto" and the extension is none of csv, tsv, tar, or
\* dataset_type is none of "webdataset", "csv", "auto"; for "webdataset" and
\* "csv" it never raises and the result is fixed by dataset_type alone.
C2_RaisesExactly ==
    op = "get_dataset_fn" =>
        LET bad_ext == /\ inp.dataset_type = "auto"
                       /\ ~\E e \in {Str_csv, Str_tsv, Str_tar} : IsExtOf(e, inp.data_path)
            bad_type == inp.dataset_type \notin {"webdataset", "csv", "auto"}
        IN  /\ (out.kind = "raise") <=> (bad_ext \/ bad_type)
            /\ out.kind = "raise" => (out.exc = "ValueError" /\ out.fn = "none")
            /\ out.kind # "raise" => (out.kind = "return" /\ out.fn # "none")
            /\ inp.dataset_type = "webdataset" =>
                   (out.kind = "return" /\ out.fn = "get_wds_dataset")
            /\ inp.dataset_type = "csv" =>
                   (out.kind = "return" /\ out.fn = "get_csv_dataset")

C2_Witness ==
    /\ op = "get_dataset_fn"
    /\ inp.dataset_type = "cellpainting"
    /\ inp.data_path = Str_csv
    /\ out.kind = "raise"

\* The constructors get_dataset_fn returns for some (data_path, dataset_type).
ReturnableFns ==
    {get_dataset_fn(p, t).fn : p \in Paths, t \in DatasetTypes} \ {"none"}

\* C3 as stated: each of the three adapters, the cell-imaging one included,
\* is returned by get_dataset_fn for at least one input (looked at once
\* get_dataset_fn has been called).
C3_AllThreeReturned ==
    op = "get_dataset_fn" =>
        {"get_csv_dataset", "get_wds_dataset", "get_cellpainting_dataset"}
            \subseteq ReturnableFns

\* C3 as amended: get_dataset_fn selects between two adapters only;
\* get_csv_dataset and get_wds_dataset are each returned for some input and
\* get_cellpainting_dataset for none.
C3_TwoAdapters ==
    /\ ReturnableFns = {"get_csv_dataset", "get_wds_dataset"}
    /\ (op = "get_dataset_fn" /\ out.kind = "return") =>
           out.fn \in {"get_csv_dataset", "get_wds_dataset"}

C3_Witness ==
    /\ op = "get_dataset_fn"
    /\ inp.dataset_type = "auto"
    /\ inp.data_path = <<".", "c", "s", "v">>
    /\ out.kind = "return"
    /\ out.fn = "get_csv_dataset"

\* C4 as stated: the dataloader of every DataInfo a builder returns, and of
\* every value of the dictionary get_data returns, has num_samples and
\* num_batches set.
C4_EveryLoaderHasCounts ==
    /\ (op \in Builders /\ out.kind = "return") => HasCounts(out.dataloader)
    /\ (op = "get_data" /\ out.kind = "return") =>
           \A k \in DOMAIN out.data : HasCounts(out.data[k].dataloader)

\* C4 as amended: the dataloaders returned by get_cellpainting_dataset,
\* get_csv_dataset and get_wds_dataset (hence the "train" and "val" values of
\* get_data's dictionary) have num_samples and num_batches set; the one
\* returned by get_imagenet (hence the "imagenet-val" and "imagenet-v2"
\* values) has neither.
C4_BuilderLoadersHaveCounts ==
    /\ (op \in Builders \ {"get_imagenet"} /\ out.kind = "return") =>
           HasCounts(out.dataloader)
    /\ (op = "get_imagenet" /\ out.kind = "return") =>
           DOMAIN out.dataloader \cap {"num_samples", "num_batches"} = {}
    /\ (op = "get_data" /\ out.kind = "return") =>
           \A k \in DOMAIN out.data :
               IF k \in {"train", "val"}
               THEN HasCounts(out.data[k].dataloader)
               ELSE DOMAIN out.data[k].dataloader \cap {"num_samples", "num_batches"} = {}

C4_Witness ==
    /\ op = "get_data"
    /\ out.kind = "return"
    /\ DOMAIN out.data = {"train", "val", "imagenet-val", "imagenet-v2"}

\* The path argument a builder call requires.
RequiredPaths ==
    IF op = "get_cellpainting_dataset" THEN {inp.args.data_mols, inp.args.image_path}
    ELSE IF op \in {"get_csv_dataset", "get_wds_dataset"}
    THEN {IF inp.is_train THEN inp.args.train_data ELSE inp.args.val_data}
    ELSE IF op = "get_imagenet" /\ inp.split = "train" THEN {inp.args.imagenet_train}
    ELSE IF op = "get_imagenet" /\ inp.split = "val" THEN {inp.args.imagenet_val}
    ELSE IF op = "get_imagenet" /\ inp.split = "v2" THEN {inp.args.imagenet_v2}
    ELSE {}

AssertionStops ==
    out.kind = "raise" /\ out.exc = "AssertionError" /\ out.constructed = {}

\* C5 as stated: whenever a required path argument of a builder is empty or
\* null, the builder stops with an assertion failure and creates nothing.
C5_EveryPathAsserted ==
    (op \in Builders /\ \E x \in RequiredPaths : x \in {None, ""}) => AssertionStops

\* C5 as amended: get_cellpainting_dataset, get_csv_dataset and get_imagenet
\* with split "train" or "val" stop with an assertion failure, creating
\* nothing, when a required path is empty or null; get_wds_dataset does so
\* only for a null path, an empty one passes its assertion; get_imagenet
\* with split "v2" asserts nothing about imagenet_v2 and goes on to
\* construct the dataset.
C5_AssertedPaths ==
    /\ (/\ op \in {"get_cellpainting_dataset", "get_csv_dataset"}
        /\ \E x \in RequiredPaths : x \in {None, ""}) => AssertionStops
    /\ (/\ op = "get_imagenet"
        /\ inp.split \in {"train", "val"}
        /\ \E x \in RequiredPaths : x \in {None, ""}) => AssertionStops
    /\ (op = "get_wds_dataset" /\ None \in RequiredPaths) => AssertionStops
    /\ (op = "get_wds_dataset" /\ "" \in RequiredPaths) => out.exc # "AssertionError"
    /\ (op = "get_imagenet" /\ inp.split = "v2") =>
           (out.exc # "AssertionError" /\ "ImageNetV2Dataset" \in out.constructed)

C5_Witness ==
    /\ op = "get_cellpainting_dataset"
    /\ inp.args.data_mols = "p"
    /\ inp.args.image_path = ""
    /\ AssertionStops

\* C6: get_data_subset returns min(n_samples, len(dataset)) pairwise distinct
\* indices, all within 0 .. len(dataset)-1, for every dataset length; so with
\* debug_run the num_samples of get_csv_dataset and get_cellpainting_dataset
\* is min(1000, original length).
C6_SubsetIndices ==
    /\ op = "get_data_subset" =>
           /\ Len(out.subset.indices) = Min(inp.n_samples, inp.len)
           /\ Distinct(out.subset.indices)
           /\ \A i \in 1..Len(out.subset.indices) :
                  out.subset.indices[i] \in 0..(inp.len - 1)
    /\ (/\ op \in {"get_csv_dataset", "get_cellpainting_dataset"}
        /\ out.kind = "return"
        /\ inp.args.debug_run) =>
           /\ out.dataloader.num_samples = Min(1000, inp.env.len)
           /\ Len(out.dataloader.dataset.indices) = Min(1000, inp.env.len)
           /\ Distinct(out.dataloader.dataset.indices)
           /\ \A i \in 1..Len(out.dataloader.dataset.indices) :
                  out.dataloader.dataset.indices[i] \in 0..(inp.env.len - 1)

C6_Witness ==
    /\ op = "get_csv_dataset"
    /\ out.kind = "return"
    /\ inp.args.debug_run
    /\ inp.env.len = 1001
    /\ out.dataloader.num_samples = 1000

\* C7: in get_wds_dataset with is_train and args.distributed, every rank's
\* loader yields exactly num_batches batches, where num_batches =
\* (world_size * (total * ceil(num_shards/world_size) // num_shards))
\* // (batch_size * world_size), and num_samples = num_batches * batch_size
\* * world_size.
C7_SameBatchesOnEveryRank ==
    (/\ op = "get_wds_dataset"
     /\ out.kind = "return"
     /\ inp.is_train
     /\ inp.args.distributed) =>
        LET ws == inp.args.world_size
            bs == inp.args.batch_size
            total == SumSeq(inp.env.sizes)
            shards == Len(inp.env.sizes)
            nb == (ws * ((total * CeilDiv(shards, ws)) \div shards)) \div (bs * ws)
        IN  /\ out.dataloader.num_batches = nb
            /\ out.dataloader.num_samples = nb * bs * ws
            /\ Len(out.dataloader.batches) = out.dataloader.num_batches

\* C8: without args.distributed, num_batches is the number of batches one
\* pass over the loader yields: floor(num_samples/batch_size) for a training
\* loader of get_csv_dataset and get_cellpainting_dataset,
\* ceil(num_samples/batch_size_eval) for their other loaders, and
\* num_samples // batch_size for get_wds_dataset.
C8_NumBatchesIsYield ==
    (/\ op = "count_samples"
     /\ inp.builder \in {"get_csv_dataset", "get_cellpainting_dataset", "get_wds_dataset"}
     /\ ~inp.call.args.distributed) =>
        LET dl == inp.dataloader
            bs == IF inp.call.is_train THEN inp.call.args.batch_size
                  ELSE inp.call.args.batch_size_eval
        IN  /\ dl.num_batches = out.n_batches
            /\ inp.builder = "get_wds_dataset" =>
                   dl.num_samples \div bs = out.n_batches
            /\ inp.builder # "get_wds_dataset" =>
                   dl.num_batches = IF inp.call.is_train THEN dl.num_samples \div bs
                                    ELSE CeilDiv(dl.num_samples, bs)

\* C9: no builder calls DataLoader with shuffle enabled together with a
\* sampler, and in get_cellpainting_dataset and get_csv_dataset the sampler
\* is a DistributedSampler exactly when args.distributed and is_train.
C9_ShuffleOnlyWithoutSampler ==
    /\ op \in {"get_cellpainting_dataset", "get_csv_dataset", "get_imagenet"} =>
           \A i \in 1..Len(out.dl_calls) :
               out.dl_calls[i].shuffle => out.dl_calls[i].sampler.kind = "None"
    /\ op \in {"get_cellpainting_dataset", "get_csv_dataset"} =>
           \A i \in 1..Len(out.dl_calls) :
               (out.dl_calls[i].sampler.kind = "DistributedSampler")
                   <=> (inp.args.distributed /\ inp.is_train)

\* The number of samples of class c.
ClassSize(targets, c) == Cardinality({i \in 1..Len(targets) : targets[i] = c})

\* C10: in get_imagenet with split "train", the indices given to
\* SubsetRandomSampler hold, for every class c in 0..999, exactly min(50, n_c)
\* indices of samples of class c, none of a sample of a class outside 0..999,
\* and all lie within 0 .. len(dataset.targets)-1.  (A class without samples
\* has none of the indices once every index is of a sample of its class.)
C10_FiftyPerClass ==
    (/\ op = "get_imagenet"
     /\ inp.split = "train"
     /\ out.sampler.kind = "SubsetRandomSampler") =>
        LET t == inp.env.targets
            S == out.sampler.indices
        IN  /\ \A i \in S : i \in 0..(Len(t) - 1)
            /\ \A i \in S : t[i + 1] \in 0..999
            /\ \A c \in Range(t) \cap (0..999) :
                   Cardinality({i \in S : t[i + 1] = c}) = Min(50, ClassSize(t, c))

C10_Witness ==
    /\ op = "get_imagenet"
    /\ inp.split = "train"
    /\ out.sampler.kind = "SubsetRandomSampler"
    /\ ClassSize(inp.env.targets, 0) = 51
    /\ ClassSize(inp.env.targets, 999) = 1
    /\ ClassSize(inp.env.targets, 1000) = 1
    /\ Cardinality(out.sampler.indices) = 51

====
